---- MODULE Spec2Model ----
(***************************************************************************)
(* Model of the text-extraction service of src/main.py: the POST           *)
(* /extract-text handler (fetch, dispatch by URL suffix, extract, schedule *)
(* the store update, respond), the four extractors, the background store   *)
(* update, the module-level store handle and GET /health.                  *)
(*                                                                         *)
(* Text is a sequence of Unicode code points, a file is a sequence of      *)
(* bytes (0..255), a URL is a sequence of one-character strings.           *)
(***************************************************************************)
EXTENDS Integers, Sequences, FiniteSets, TLC

\* ------------------------------------------------------------------ bounds
\* Requests the service receives in one run of the concurrent specification.
MaxRequests == 2
\* Worker processes (each its own pid and its own event loop).
NumProcs == 2
\* Longest downloaded body enumerated byte by byte for the plain-text path.
MaxLen == 3

\* ------------------------------------------------------- strings and bytes
UpperLetters == <<"A","B","C","D","E","F","G","H","I","J","K","L","M",
                  "N","O","P","Q","R","S","T","U","V","W","X","Y","Z">>
LowerLetters == <<"a","b","c","d","e","f","g","h","i","j","k","l","m",
                  "n","o","p","q","r","s","t","u","v","w","x","y","z">>

\* str.lower() on one character (ASCII letters; every other character of the
\* modelled URLs is caseless).
LowerChar(c) ==
    IF \E i \in 1..26 : UpperLetters[i] = c
    THEN LowerLetters[CHOOSE i \in 1..26 : UpperLetters[i] = c]
    ELSE c

UpperChar(c) ==
    IF \E i \in 1..26 : LowerLetters[i] = c
    THEN UpperLetters[CHOOSE i \in 1..26 : LowerLetters[i] = c]
    ELSE c

\* str.lower()
Lower(s) == [i \in 1..Len(s) |-> LowerChar(s[i])]

\* str.endswith(suffix)
EndsWith(s, suffix) ==
    /\ Len(suffix) <= Len(s)
    /\ SubSeq(s, Len(s) - Len(suffix) + 1, Len(s)) = suffix

\* Python's str.isspace() on one code point, the set str.strip() removes.
IsSpace(cp) ==
    \/ cp \in 9..13
    \/ cp \in 28..32
    \/ cp \in {133, 160, 5760, 8232, 8233, 8239, 8287, 12288}
    \/ cp \in 8192..8202

RECURSIVE LStrip(_)
LStrip(s) == IF s # <<>> /\ IsSpace(Head(s)) THEN LStrip(Tail(s)) ELSE s

RECURSIVE RStrip(_)
RStrip(s) ==
    IF s # <<>> /\ IsSpace(s[Len(s)]) THEN RStrip(SubSeq(s, 1, Len(s) - 1)) ELSE s

\* str.strip()
Strip(s) == RStrip(LStrip(s))

\* The result of a decode: the code points, or a UnicodeDecodeError.
Decoded(cps) == [ok |-> TRUE, cps |-> cps]
DecodeError == [ok |-> FALSE, cps |-> <<>>]

IsCont(b) == b \in 128..191

\* One UTF-8 sequence starting at b[i]: its length and code point, length 0
\* when the bytes at i are not a well-formed sequence (strict decoding: no
\* overlong forms, no surrogates, nothing above U+10FFFF).
Utf8Unit(b, i) ==
    LET n  == Len(b)
        b0 == b[i]
    IN  IF b0 < 128 THEN [len |-> 1, cp |-> b0]
        ELSE IF b0 \in 194..223 /\ i + 1 <= n /\ IsCont(b[i+1])
        THEN [len |-> 2, cp |-> (b0 - 192) * 64 + (b[i+1] - 128)]
        ELSE IF /\ b0 \in 224..239 /\ i + 2 <= n
                /\ IsCont(b[i+1]) /\ IsCont(b[i+2])
                /\ (b0 = 224 => b[i+1] >= 160)
                /\ (b0 = 237 => b[i+1] < 160)
        THEN [len |-> 3,
              cp |-> (b0 - 224) * 4096 + (b[i+1] - 128) * 64 + (b[i+2] - 128)]
        ELSE IF /\ b0 \in 240..244 /\ i + 3 <= n
                /\ IsCont(b[i+1]) /\ IsCont(b[i+2]) /\ IsCont(b[i+3])
                /\ (b0 = 240 => b[i+1] >= 144)
                /\ (b0 = 244 => b[i+1] < 144)
        THEN [len |-> 4,
              cp |-> (b0 - 240) * 262144 + (b[i+1] - 128) * 4096
                     + (b[i+2] - 128) * 64 + (b[i+3] - 128)]
        ELSE [len |-> 0, cp |-> 0]

RECURSIVE Utf8From(_, _)
Utf8From(b, i) ==
    IF i > Len(b) THEN Decoded(<<>>)
    ELSE LET u == Utf8Unit(b, i)
         IN  IF u.len = 0 THEN DecodeError
             ELSE LET rest == Utf8From(b, i + u.len)
                  IN  IF rest.ok THEN Decoded(<<u.cp>> \o rest.cps)
                      ELSE DecodeError

\* bytes.decode('utf-8')
DecodeUtf8(b) == Utf8From(b, 1)

\* bytes.decode('latin-1') and bytes.decode('iso-8859-1'): byte n is U+00n.
DecodeLatin1(b) == Decoded(b)

\* The bytes 0x80..0x9F under Windows-1252; 0 marks the five undefined bytes.
Cp1252High == <<8364, 0, 8218, 402, 8222, 8230, 8224, 8225,
                710, 8240, 352, 8249, 338, 0, 381, 0,
                0, 8216, 8217, 8220, 8221, 8226, 8211, 8212,
                732, 8482, 353, 8250, 339, 0, 382, 376>>

Cp1252Char(x) == IF x \in 128..159 THEN Cp1252High[x - 127] ELSE x

\* bytes.decode('cp1252')
DecodeCp1252(b) ==
    IF \E i \in 1..Len(b) : Cp1252Char(b[i]) = 0
    THEN DecodeError
    ELSE Decoded([i \in 1..Len(b) |-> Cp1252Char(b[i])])

\* bytes.decode(encoding)
Decode(encoding, b) ==
    CASE encoding = "utf-8"      -> DecodeUtf8(b)
      [] encoding = "latin-1"    -> DecodeLatin1(b)
      [] encoding = "cp1252"     -> DecodeCp1252(b)
      [] encoding = "iso-8859-1" -> DecodeLatin1(b)


\* ------------------------------------------------------------- exceptions
NoExc == [cls |-> "none", status |-> 0, detail |-> ""]

\* HTTPException(status_code, detail)
HTTPException(status, detail) ==
    [cls |-> "HTTPException", status |-> status, detail |-> detail]

\* requests.RequestException (ConnectionError, Timeout, HTTPError, ...)
RequestException(detail) ==
    [cls |-> "RequestException", status |-> 0, detail |-> detail]

\* Any other Exception (ValueError, UnicodeError, OSError, ...)
OtherException(detail) == [cls |-> "Exception", status |-> 0, detail |-> detail]

\* What an extractor hands back: the text, or the exception it raises.
Returned(text) == [ok |-> TRUE, text |-> text, exc |-> NoExc]
Raised(exc) == [ok |-> FALSE, text |-> <<>>, exc |-> exc]

\* ------------------------------------------------------------- extractors
RECURSIVE Digits(_)
\* str(n) for n >= 0, as code points
Digits(n) == IF n < 10 THEN <<48 + n>> ELSE Digits(n \div 10) \o <<48 + (n % 10)>>

\* f"--- Page {page_num} ---\n{page_text}\n\n"
PageBlock(page_num, page_text) ==
    <<45, 45, 45, 32, 80, 97, 103, 101, 32>> \o Digits(page_num)
       \o <<32, 45, 45, 45, 10>> \o page_text \o <<10, 10>>

RECURSIVE PdfPages(_, _)
\* the loop over enumerate(doc, 1), from page i on
PdfPages(pages, i) ==
    IF i > Len(pages) THEN <<>>
    ELSE (IF Strip(pages[i]) # <<>> THEN PageBlock(i, pages[i]) ELSE <<>>)
            \o PdfPages(pages, i + 1)

\* A wrapper's except clause: except Exception -> HTTPException(400, ...).
\* Every exception raised inside the try block is an Exception.
ExtractorExcept(prefix, e) == HTTPException(400, prefix)

\* extract_text_from_pdf; lib is what fitz makes of the bytes: whether it
\* opens them and the text of each page.
extract_text_from_pdf(lib) ==
    IF ~lib.opens
    THEN Raised(ExtractorExcept("PDF extraction failed", OtherException("open")))
    ELSE LET text == PdfPages(lib.pages, 1)
         IN  IF Strip(text) = <<>>
             THEN Raised(ExtractorExcept("PDF extraction failed",
                                         OtherException("No text found in PDF")))
             ELSE Returned(Strip(text))

RECURSIVE Lines(_, _)
\* text += t + "\n" for every t of ts (from index i) that is not blank
Lines(ts, i) ==
    IF i > Len(ts) THEN <<>>
    ELSE (IF Strip(ts[i]) # <<>> THEN ts[i] \o <<10>> ELSE <<>>) \o Lines(ts, i + 1)

RECURSIVE Concat(_, _)
\* the concatenation of the sequences ss[i], ss[i+1], ...
Concat(ss, i) == IF i > Len(ss) THEN <<>> ELSE ss[i] \o Concat(ss, i + 1)

\* The cells of a table, rows top to bottom, cells left to right.
TableCells(table) == Concat(table, 1)

\* extract_text_from_docx; lib is what python-docx makes of the bytes:
\* whether it opens them, the paragraphs and the tables (rows of cells).
extract_text_from_docx(lib) ==
    IF ~lib.opens
    THEN Raised(ExtractorExcept("DOCX extraction failed", OtherException("open")))
    ELSE LET cells == Concat([t \in 1..Len(lib.tables) |-> TableCells(lib.tables[t])], 1)
             text  == Lines(lib.paragraphs, 1) \o Lines(cells, 1)
         IN  IF Strip(text) = <<>>
             THEN Raised(ExtractorExcept("DOCX extraction failed",
                                         OtherException("No text found in DOCX file.")))
             ELSE Returned(Strip(text))

\* encodings with Windows-1252 tried before Latin-1
encodings_cp1252_first == <<"utf-8", "cp1252", "latin-1", "iso-8859-1">>

\* The list extract_text_from_txt walks.
encodings == <<"utf-8", "latin-1", "cp1252", "iso-8859-1">>

RECURSIVE TxtLoop(_, _)
\* the for loop of extract_text_from_txt from encodings[i] on
TxtLoop(file_content, i) ==
    IF i > Len(encodings)
    THEN Raised(HTTPException(400, "Failed to decode text file with supported encodings"))
    ELSE LET d == Decode(encodings[i], file_content)
         IN  IF d.ok /\ Strip(d.cps) # <<>>
             THEN Returned(Strip(d.cps))
             ELSE TxtLoop(file_content, i + 1)

extract_text_from_txt(file_content) == TxtLoop(file_content, 1)

\* A fixed path, without the pid
TempPath_fixed(pid) == <<"/tmp/temp_doc_", 0, ".doc">>

\* f"/tmp/temp_doc_{os.getpid()}.doc"
TempPath(pid) == <<"/tmp/temp_doc_", pid, ".doc">>

\* The body of extract_text_from_doc after the file is written: textract runs
\* on the path (tool: whether it succeeds and the bytes it prints), its output
\* is decoded as UTF-8 and stripped.
DocProcess(tool) ==
    IF ~tool.ok
    THEN Raised(ExtractorExcept("DOC extraction failed", OtherException("textract")))
    ELSE LET d == DecodeUtf8(tool.out)
         IN  IF ~d.ok
             THEN Raised(ExtractorExcept("DOC extraction failed",
                                         OtherException("UnicodeDecodeError")))
             ELSE IF Strip(d.cps) = <<>>
             THEN Raised(ExtractorExcept("DOC extraction failed",
                                         OtherException("No text found in DOC file.")))
             ELSE Returned(Strip(d.cps))

\* ------------------------------------------------------------- dispatcher
ExtPdf  == <<".", "p", "d", "f">>
ExtDocx == <<".", "d", "o", "c", "x">>
ExtDoc  == <<".", "d", "o", "c">>
ExtTxt  == <<".", "t", "x", "t">>

\* Dispatch on the URL as given, without .lower()
Dispatch_case_sensitive(file_url) ==
    IF EndsWith(file_url, ExtPdf) THEN "pdf"
    ELSE IF EndsWith(file_url, ExtDocx) THEN "docx"
    ELSE IF EndsWith(file_url, ExtDoc) THEN "doc"
    ELSE IF EndsWith(file_url, ExtTxt) THEN "txt"
    ELSE "none"

\* The if/elif chain of extract_text on file_url_lower: the extractor it
\* calls, "none" when it raises the unsupported-type error instead.
Dispatch(file_url) ==
    LET file_url_lower == Lower(file_url)
    IN  IF EndsWith(file_url_lower, ExtPdf) THEN "pdf"
        ELSE IF EndsWith(file_url_lower, ExtDocx) THEN "docx"
        ELSE IF EndsWith(file_url_lower, ExtDoc) THEN "doc"
        ELSE IF EndsWith(file_url_lower, ExtTxt) THEN "txt"
        ELSE "none"

\* HandlerExcept without the clause "except HTTPException: raise"
HandlerExcept_no_reraise(e) ==
    IF e.cls = "RequestException"
    THEN HTTPException(400, "Failed to download file")
    ELSE HTTPException(500, "Extraction failed")

\* The except clauses of extract_text, in order.
HandlerExcept(e) ==
    IF e.cls = "RequestException"
    THEN HTTPException(400, "Failed to download file")
    ELSE IF e.cls = "HTTPException" THEN e
    ELSE HTTPException(500, "Extraction failed")

\* ------------------------------------------------------------ store handle
\* A value of os.getenv: unset (None), set to the empty string, or set.
EnvValues == {"unset", "empty", "set"}
Falsy(v) == v \in {"unset", "empty"}

\* SupabaseSetup testing the variables with "is None" instead of "not"
SupabaseSetup_is_none(url, key, valid) ==
    IF url = "unset" \/ key = "unset" THEN "None"
    ELSE IF valid THEN "Client" ELSE "None"

\* The module-level setup of the handle: None unless both variables are set
\* and create_client accepts them (valid) instead of raising.
SupabaseSetup(url, key, valid) ==
    IF Falsy(url) \/ Falsy(key) THEN "None"
    ELSE IF valid THEN "Client" ELSE "None"

\* health_check's "supabase" field
health_check(handle) == IF handle # "None" THEN "connected" ELSE "disabled"

\* song_id: Optional[str]
NoSong == [given |-> FALSE, id |-> ""]
Song(id) == [given |-> TRUE, id |-> id]
\* the truth value of request.song_id
SongTruthy(song) == song.given /\ song.id # ""

\* if request.song_id and supabase
Scheduled(song, handle) == SongTruthy(song) /\ handle # "None"

\* TaskFor handing over the downloaded bytes instead of the extracted text
TaskFor_raw(r, rec) == [rid |-> r, song_id |-> rec.song_id.id, text |-> rec.file_content]

\* The arguments of add_task(update_supabase_record, request.song_id, text)
\* in the handler of request r with locals rec.
TaskFor(r, rec) == [rid |-> r, song_id |-> rec.song_id.id, text |-> rec.text]

\* update_supabase_record raising a 404 when no record matches
update_supabase_record_404(handle, db, song_id, text, raises) ==
    IF handle = "None"
    THEN [log |-> "skipped", db |-> db, escaped |-> FALSE]
    ELSE IF raises
    THEN [log |-> "error", db |-> db, escaped |-> FALSE]
    ELSE IF song_id \in DOMAIN db
    THEN [log |-> "updated", db |-> [db EXCEPT ![song_id] = text], escaped |-> FALSE]
    ELSE [log |-> "miss", db |-> db, escaped |-> TRUE]

\* update_supabase_record(song_id, text) on the store db (record id ->
\* content); raises tells whether the client call throws. The outcome names
\* the log line written, db the store afterwards, escaped whether an
\* exception leaves the function.
update_supabase_record(handle, db, song_id, text, raises) ==
    IF handle = "None"
    THEN [log |-> "skipped", db |-> db, escaped |-> FALSE]
    ELSE IF raises
    THEN [log |-> "error", db |-> db, escaped |-> FALSE]
    ELSE IF song_id \in DOMAIN db
    THEN [log |-> "updated", db |-> [db EXCEPT ![song_id] = text], escaped |-> FALSE]
    ELSE [log |-> "miss", db |-> db, escaped |-> FALSE]


\* ------------------------------------------------------------------ state
VARIABLES
    cfg,        \* the name of the inputs the environment may supply in this run
    env,        \* SUPABASE_URL, SUPABASE_SERVICE_KEY, and whether create_client accepts them
    supabase,   \* the module-level store handle (every process builds it from env at import)
    req,        \* the POST /extract-text requests: position and locals of each handler
    loop,       \* the request the event loop of each process is running, 0 when free
    bgq,        \* the background tasks of each process waiting to run
    db,         \* the song_scripts table: record id -> content
    fs,         \* /tmp: path -> whether the file exists and its bytes
    health      \* the "supabase" field of the last GET /health answer

vars == <<cfg, env, supabase, req, loop, bgq, db, fs, health>>

Procs == 1..NumProcs
ReqIds == 1..MaxRequests

NoFile == [exists |-> FALSE, data |-> <<>>]
File(data) == [exists |-> TRUE, data |-> data]
NoRead == [done |-> FALSE, file |-> NoFile]
NoResponse ==
    [kind |-> "none", status |-> 0, detail |-> "", text |-> <<>>, file_type |-> "",
     updated_supabase |-> FALSE, char_count |-> 0]
NoBg == [state |-> "none", log |-> "", song_id |-> "", text |-> <<>>, escaped |-> FALSE]

\* A request not yet received.
NewReq ==
    [pc |-> "new", pid |-> 0, file_url |-> <<>>, song_id |-> NoSong,
     file_content |-> <<>>, text |-> <<>>, file_type |-> "",
     updated_supabase |-> FALSE, tasks |-> <<>>,
     temp_file |-> <<>>, created |-> FALSE, read |-> NoRead,
     pending |-> Returned(<<>>), removeFailed |-> FALSE,
     steps |-> <<>>, extractors |-> <<>>, cause |-> "",
     response |-> NoResponse, bg |-> NoBg]

\* The JSON FastAPI sends for an HTTPException.
ErrorResponse(e) ==
    [kind |-> "error", status |-> e.status, detail |-> e.detail, text |-> <<>>,
     file_type |-> "", updated_supabase |-> FALSE, char_count |-> 0]

\* ExtractionResponse(...), sent with status 200
ExtractionResponse(text, file_type, updated_supabase) ==
    [kind |-> "ok", status |-> 200, detail |-> "success", text |-> text,
     file_type |-> file_type, updated_supabase |-> updated_supabase,
     char_count |-> Len(text)]

\* The handler of rec leaves its try block with exception e raised at cause.
Errored(rec, e, cause) ==
    [rec EXCEPT !.pc = "errored", !.cause = cause,
                !.response = ErrorResponse(HandlerExcept(e))]

\* AfterExtract with the extractor's failure swallowed: the handler goes on.
AfterExtract_swallowed(rec, res, file_type) ==
    [rec EXCEPT !.pc = "schedule", !.text = res.text, !.file_type = file_type]

\* An extractor called at dispatch returned res to the handler of rec.
AfterExtract(rec, res, file_type) ==
    IF res.ok
    THEN [rec EXCEPT !.pc = "schedule", !.text = res.text, !.file_type = file_type]
    ELSE Errored(rec, res.exc, "extractor")

Free(p) == [loop EXCEPT ![p] = 0]
\* The event loop of a process is free again once its handler has ended.
LoopAfter(rec) == IF rec.pc \in {"errored", "responded"} THEN Free(rec.pid) ELSE loop

AllPaths == {TempPath(p) : p \in Procs}

\* ----------------------------------------------------------------- inputs
\* The bytes the plain-text path is enumerated over: space, 'A', 0x81 (no
\* Windows-1252 character), 0x85 (NEL / ellipsis), 0xA0 (no-break space),
\* 0xC2 (the UTF-8 lead byte of U+0080..U+00BF).
TxtBytes == {32, 65, 129, 133, 160, 194}

RECURSIVE SeqsUpTo(_, _)
\* the sequences over S of length at most n
SeqsUpTo(S, n) ==
    IF n = 0 THEN {<<>>}
    ELSE LET shorter == SeqsUpTo(S, n - 1)
         IN  shorter \cup {Append(s, x) : s \in {t \in shorter : Len(t) = n - 1}, x \in S}

\* ext with the letters at the positions of mask in upper case
Cased(ext, mask) == [i \in 1..Len(ext) |-> IF mask[i] THEN UpperChar(ext[i]) ELSE ext[i]]

Stems == {<<"u">>, <<"u", ".", "t", "x", "t">>, <<"u", ".", "d", "o", "c">>}
Endings == {ExtPdf, ExtDocx, ExtDoc, ExtTxt, <<".", "e", "x", "e">>, <<"p", "d", "f">>,
            <<".", "d", "o">>, <<".", "t", "x", "t", "?">>, <<".", "p", "d", "f", "/">>,
            <<".", "d", "o", "c", "x", "x">>, <<>>}
WideUrls ==
    UNION {{stem \o Cased(e, mask) : mask \in [1..Len(e) -> BOOLEAN]} :
              stem \in Stems, e \in Endings}

NarrowUrls == {<<"u">> \o ExtPdf, <<"u">> \o Cased(ExtDocx, [i \in 1..5 |-> TRUE]),
               <<"u">> \o ExtDoc, <<"u">> \o ExtTxt, <<"u", ".", "e", "x", "e">>}

PdfViews == {[opens |-> FALSE, pages |-> <<>>],
             [opens |-> TRUE, pages |-> << <<32>>, <<65>> >>],
             [opens |-> TRUE, pages |-> << <<32>> >>]}
DocxViews == {[opens |-> FALSE, paragraphs |-> <<>>, tables |-> <<>>],
              [opens |-> TRUE, paragraphs |-> << <<>>, <<65>> >>,
               tables |-> << << << <<66>>, <<>> >> >> >>],
              [opens |-> TRUE, paragraphs |-> << <<32>> >>, tables |-> <<>>]}
ToolRuns == {[ok |-> FALSE, out |-> <<>>], [ok |-> TRUE, out |-> <<65, 10>>],
             [ok |-> TRUE, out |-> <<160>>], [ok |-> TRUE, out |-> <<10>>]}

\* The records of the store at start.
Records == {"s1"}

Request(url, song) == [file_url |-> url, song_id |-> song]

\* What requests.get / raise_for_status / response.content come to.
ConnectionError == [exc |-> RequestException("ConnectionError"), cause |-> "network", body |-> <<>>]
HTTPError == [exc |-> RequestException("HTTPError"), cause |-> "http_status", body |-> <<>>]
Unexpected == [exc |-> OtherException("UnicodeError"), cause |-> "unexpected", body |-> <<>>]
Body(b) == [exc |-> NoExc, cause |-> "", body |-> b]

Env(url, key, valid) == [url |-> url, key |-> key, valid |-> valid]
AllEnvs == {Env(u, k, v) : u \in EnvValues, k \in EnvValues, v \in BOOLEAN}

\* The inputs of a run: the requests that may arrive (URL and song_id), what
\* the download, the parsing libraries and textract may come to, the
\* environment the service may be started in, and the number of requests.
Inputs(requests, fetches, pdfs, docxs, tools, envs, reqLimit) ==
    [requests |-> requests, fetches |-> fetches, pdfs |-> pdfs, docxs |-> docxs,
     tools |-> tools, envs |-> envs, reqLimit |-> reqLimit]

\* Concurrent requests, in one process and in several, over a few inputs that
\* take every extractor and the background update.
ConcurrentInputs ==
    Inputs({Request(<<"u">> \o ExtDoc, Song("s1")),
            Request(<<"u">> \o ExtPdf, NoSong),
            Request(<<"u">> \o ExtDocx, Song("s9")),
            Request(<<"u">> \o ExtTxt, Song("s9"))},
           {ConnectionError, Body(<<65>>)},
           {[opens |-> TRUE, pages |-> << <<32>>, <<65>> >>]},
           {[opens |-> FALSE, paragraphs |-> <<>>, tables |-> <<>>]},
           {[ok |-> FALSE, out |-> <<>>], [ok |-> TRUE, out |-> <<66, 10>>]},
           {Env("set", "set", TRUE)},
           MaxRequests)

\* One request at a time over every kind of input: every environment, every
\* song_id, every outcome of the download and of the libraries.
OneInputs ==
    Inputs({Request(u, s) : u \in NarrowUrls,
                            s \in {NoSong, Song(""), Song("s1"), Song("s9")}},
           {ConnectionError, HTTPError, Unexpected, Body(<<>>), Body(<<65>>), Body(<<32>>)},
           PdfViews, DocxViews, ToolRuns, AllEnvs, 1)

\* One request at a time over the URLs: every letter case of every ending.
UrlInputs ==
    Inputs({Request(u, s) : u \in WideUrls, s \in {NoSong, Song("s1")}},
           {ConnectionError, Body(<<65>>)},
           PdfViews, DocxViews, ToolRuns, {Env("set", "set", TRUE)}, 1)

\* One request at a time over the downloaded bodies: every byte sequence over
\* TxtBytes up to MaxLen.
BodyInputs ==
    Inputs({Request(u, s) : u \in NarrowUrls, s \in {Song("s1")}},
           {Body(b) : b \in SeqsUpTo(TxtBytes, MaxLen)},
           PdfViews, DocxViews, ToolRuns, {Env("set", "set", TRUE)}, 1)

\* The inputs of this run
In ==
    CASE cfg = "concurrent" -> ConcurrentInputs
      [] cfg = "one"        -> OneInputs
      [] cfg = "urls"       -> UrlInputs
      [] cfg = "bodies"     -> BodyInputs

InitWith(c) ==
    /\ cfg = c
    /\ env \in In.envs
    /\ supabase = SupabaseSetup(env.url, env.key, env.valid)
    /\ req = [r \in ReqIds |-> NewReq]
    /\ loop = [p \in Procs |-> 0]
    /\ bgq = [p \in Procs |-> <<>>]
    /\ db = [id \in Records |-> <<>>]
    /\ fs = [path \in AllPaths |-> NoFile]
    /\ health = "none"

Init == InitWith("concurrent")
InitOne == InitWith("one")
InitUrls == InitWith("urls")
InitBodies == InitWith("bodies")

\* ---------------------------------------------------------------- actions
\* A POST /extract-text request reaches a process whose event loop is free:
\* the handler is a coroutine that never awaits, so the loop runs it from its
\* first line to its return or raise before it takes up anything else.
\* Processes are alike, so they are numbered in the order they first serve.
Receive(r, p) ==
    /\ req[r].pc = "new"
    /\ \A q \in Procs : q < p => \E x \in ReqIds : req[x].pid = q
    /\ r <= In.reqLimit
    /\ \A q \in ReqIds : q < r => req[q].pc # "new"
    /\ loop[p] = 0
    /\ \E q \in In.requests :
          req' = [req EXCEPT ![r] = [@ EXCEPT !.pc = "fetch", !.pid = p,
                                              !.file_url = q.file_url,
                                              !.song_id = q.song_id]]
    /\ loop' = [loop EXCEPT ![p] = r]
    /\ UNCHANGED <<cfg, env, supabase, bgq, db, fs, health>>

\* Download the file and refuse an empty body.
Fetch(r) ==
    /\ req[r].pc = "fetch"
    /\ \E f \in In.fetches :
          LET rec == [req[r] EXCEPT !.steps = Append(@, "fetch")]
              new == IF f.exc # NoExc THEN Errored(rec, f.exc, f.cause)
                     ELSE IF f.body = <<>>
                     THEN Errored(rec, HTTPException(400, "Downloaded file is empty"), "empty")
                     ELSE [rec EXCEPT !.pc = "dispatch", !.file_content = f.body]
          IN  /\ req' = [req EXCEPT ![r] = new]
              /\ loop' = LoopAfter(new)
    /\ UNCHANGED <<cfg, env, supabase, bgq, db, fs, health>>

\* Determine the file type from the URL.
DispatchStep(r) ==
    /\ req[r].pc = "dispatch"
    /\ LET rec == [req[r] EXCEPT !.steps = Append(@, "dispatch")]
           ext == Dispatch(rec.file_url)
           new == IF ext = "none"
                  THEN Errored(rec, HTTPException(400, "Unsupported file type. Supported formats: PDF, DOCX, DOC, TXT"),
                               "unsupported")
                  ELSE [rec EXCEPT !.pc = ext]
       IN  /\ req' = [req EXCEPT ![r] = new]
           /\ loop' = LoopAfter(new)
    /\ UNCHANGED <<cfg, env, supabase, bgq, db, fs, health>>

\* The handler of rec calls the extractor named.
Invoke(rec, name) ==
    [rec EXCEPT !.steps = Append(@, "extract"), !.extractors = Append(@, name)]

Pdf(r) ==
    /\ req[r].pc = "pdf"
    /\ \E lib \in In.pdfs :
          LET new == AfterExtract(Invoke(req[r], "pdf"), extract_text_from_pdf(lib), "pdf")
          IN  /\ req' = [req EXCEPT ![r] = new]
              /\ loop' = LoopAfter(new)
    /\ UNCHANGED <<cfg, env, supabase, bgq, db, fs, health>>

Docx(r) ==
    /\ req[r].pc = "docx"
    /\ \E lib \in In.docxs :
          LET new == AfterExtract(Invoke(req[r], "docx"), extract_text_from_docx(lib), "docx")
          IN  /\ req' = [req EXCEPT ![r] = new]
              /\ loop' = LoopAfter(new)
    /\ UNCHANGED <<cfg, env, supabase, bgq, db, fs, health>>

Txt(r) ==
    /\ req[r].pc = "txt"
    /\ LET new == AfterExtract(Invoke(req[r], "txt"),
                               extract_text_from_txt(req[r].file_content), "txt")
       IN  /\ req' = [req EXCEPT ![r] = new]
           /\ loop' = LoopAfter(new)
    /\ UNCHANGED <<cfg, env, supabase, bgq, db, fs, health>>

\* extract_text_from_doc, first part: name the temporary file, open it for
\* writing and write the bytes. The open may fail (nothing changes on disk)
\* and the write may fail (the file is left truncated).
DocWrite(r) ==
    /\ req[r].pc = "doc"
    /\ LET rec  == [Invoke(req[r], "doc") EXCEPT !.temp_file = TempPath(req[r].pid)]
           path == rec.temp_file
           fail == Raised(ExtractorExcept("DOC extraction failed", OtherException("OSError")))
       IN  \E w \in {"written", "open fails", "write fails"} :
              /\ fs' = CASE w = "written"     -> [fs EXCEPT ![path] = File(rec.file_content)]
                         [] w = "write fails" -> [fs EXCEPT ![path] = File(<<>>)]
                         [] w = "open fails"  -> fs
              /\ req' = [req EXCEPT ![r] =
                           CASE w = "written"     -> [rec EXCEPT !.pc = "doc_run", !.created = TRUE]
                             [] w = "write fails" -> [rec EXCEPT !.pc = "doc_finally", !.created = TRUE,
                                                                 !.pending = fail]
                             [] w = "open fails"  -> [rec EXCEPT !.pc = "doc_finally", !.pending = fail]]
    /\ UNCHANGED <<cfg, env, supabase, loop, bgq, db, health>>

\* extract_text_from_doc, second part: textract reads the file at the path,
\* its output is decoded and stripped.
DocRun(r) ==
    /\ req[r].pc = "doc_run"
    /\ LET f == fs[req[r].temp_file]
       IN  \E tool \in In.tools :
              req' = [req EXCEPT ![r] =
                        [@ EXCEPT !.pc = "doc_finally",
                                  !.read = [done |-> TRUE, file |-> f],
                                  !.pending = IF f.exists THEN DocProcess(tool)
                                              ELSE DocProcess([ok |-> FALSE, out |-> <<>>])]]
    /\ UNCHANGED <<cfg, env, supabase, loop, bgq, db, fs, health>>

\* DocCleanup without the try/except around os.remove
DocCleanup_unguarded(files, temp_file, removeOk) ==
    IF temp_file # <<>> /\ files[temp_file].exists
    THEN IF removeOk
         THEN [fs |-> [files EXCEPT ![temp_file] = NoFile], failed |-> FALSE, exc |-> NoExc]
         ELSE [fs |-> files, failed |-> TRUE, exc |-> OtherException("PermissionError")]
    ELSE [fs |-> files, failed |-> FALSE, exc |-> NoExc]

\* The finally clause of extract_text_from_doc: remove the file if the path
\* is set and the file exists; an error of os.remove is swallowed. removeOk
\* tells whether os.remove succeeds. exc is the exception the clause raises.
DocCleanup(files, temp_file, removeOk) ==
    IF temp_file # <<>> /\ files[temp_file].exists
    THEN IF removeOk
         THEN [fs |-> [files EXCEPT ![temp_file] = NoFile], failed |-> FALSE, exc |-> NoExc]
         ELSE [fs |-> files, failed |-> TRUE, exc |-> NoExc]
    ELSE [fs |-> files, failed |-> FALSE, exc |-> NoExc]

\* extract_text_from_doc, last part: the finally clause, then the return or
\* raise that was pending (an exception raised by the clause would replace it).
DocFinally(r) ==
    /\ req[r].pc = "doc_finally"
    /\ \E removeOk \in BOOLEAN :
          LET c   == DocCleanup(fs, req[r].temp_file, removeOk)
              rec == [req[r] EXCEPT !.removeFailed = c.failed]
              new == IF c.exc # NoExc THEN Errored(rec, c.exc, "cleanup")
                     ELSE AfterExtract(rec, rec.pending, "doc")
          IN  /\ fs' = c.fs
              /\ req' = [req EXCEPT ![r] = new]
              /\ loop' = LoopAfter(new)
    /\ UNCHANGED <<cfg, env, supabase, bgq, db, health>>

\* Schedule the store update in the background if song_id is provided.
Schedule(r) ==
    /\ req[r].pc = "schedule"
    /\ LET rec == req[r]
           add == Scheduled(rec.song_id, supabase)
       IN  req' = [req EXCEPT ![r] =
                     [rec EXCEPT !.pc = "respond",
                                 !.updated_supabase = add,
                                 !.steps = IF add THEN Append(@, "schedule") ELSE @,
                                 !.tasks = IF add
                                           THEN Append(@, TaskFor(r, rec))
                                           ELSE @]]
    /\ UNCHANGED <<cfg, env, supabase, loop, bgq, db, fs, health>>

\* Return the ExtractionResponse; the tasks added to background_tasks are
\* run by the framework after the response has been sent.
Respond(r) ==
    /\ req[r].pc = "respond"
    /\ LET rec == req[r]
           new == [rec EXCEPT !.pc = "responded",
                              !.steps = Append(@, "respond"),
                              !.response = ExtractionResponse(rec.text, rec.file_type,
                                                              rec.updated_supabase),
                              !.bg = IF rec.tasks # <<>> THEN [@ EXCEPT !.state = "queued"] ELSE @]
       IN  /\ req' = [req EXCEPT ![r] = new]
           /\ bgq' = [bgq EXCEPT ![rec.pid] = @ \o rec.tasks]
           /\ loop' = LoopAfter(new)
    /\ UNCHANGED <<cfg, env, supabase, db, fs, health>>

\* The event loop of p, free, runs the next background task: the coroutine
\* update_supabase_record, which never awaits.
BgTask(p) ==
    /\ loop[p] = 0
    /\ bgq[p] # <<>>
    /\ LET t == Head(bgq[p])
       IN  \E raises \in BOOLEAN :
              LET u == update_supabase_record(supabase, db, t.song_id, t.text, raises)
              IN  /\ db' = u.db
                  /\ req' = [req EXCEPT ![t.rid].bg =
                               [state |-> "done", log |-> u.log, song_id |-> t.song_id,
                                text |-> t.text, escaped |-> u.escaped]]
    /\ bgq' = [bgq EXCEPT ![p] = Tail(@)]
    /\ UNCHANGED <<cfg, env, supabase, loop, fs, health>>

\* GET /health on process p.
Health(p) ==
    /\ loop[p] = 0
    /\ health' = health_check(supabase)
    /\ UNCHANGED <<cfg, env, supabase, req, loop, bgq, db, fs>>

Next ==
    \/ \E r \in ReqIds, p \in Procs : Receive(r, p)
    \/ \E r \in ReqIds : Fetch(r)
    \/ \E r \in ReqIds : DispatchStep(r)
    \/ \E r \in ReqIds : Pdf(r)
    \/ \E r \in ReqIds : Docx(r)
    \/ \E r \in ReqIds : Txt(r)
    \/ \E r \in ReqIds : DocWrite(r)
    \/ \E r \in ReqIds : DocRun(r)
    \/ \E r \in ReqIds : DocFinally(r)
    \/ \E r \in ReqIds : Schedule(r)
    \/ \E r \in ReqIds : Respond(r)
    \/ \E p \in Procs : BgTask(p)
    \/ \E p \in Procs : Health(p)

\* One step of the handler of request r.
HandlerStep(r) ==
    \/ Fetch(r) \/ DispatchStep(r) \/ Pdf(r) \/ Docx(r) \/ Txt(r)
    \/ DocWrite(r) \/ DocRun(r) \/ DocFinally(r) \/ Schedule(r) \/ Respond(r)

Spec == Init /\ [][Next]_vars
SpecOne == InitOne /\ [][Next]_vars
SpecUrls == InitUrls /\ [][Next]_vars
SpecBodies == InitBodies /\ [][Next]_vars
\* The event loop runs a handler it has started to its end: every call the
\* handler makes is synchronous and returns or raises.
FairOne == SpecOne /\ \A r \in ReqIds : WF_vars(HandlerStep(r))


\* ----------------------------------------------------------------- claims
Terminal == {"errored", "responded"}
StepOrder == <<"fetch", "dispatch", "extract", "schedule", "respond">>
Rank(step) == CHOOSE i \in 1..Len(StepOrder) : StepOrder[i] = step
Has(seq, x) == \E i \in 1..Len(seq) : seq[i] = x
\* Whether the extractor the handler of r called has returned or raised.
Extracted(r) == req[r].extractors # <<>> /\ req[r].pc \in {"schedule", "respond"} \cup Terminal

\* The steps of every handler so far are in the fixed order, each at most
\* once and none skipped; schedule and respond run only after an extraction
\* that returned text; an empty body invokes no extractor.
C1_Order ==
    \A r \in ReqIds :
       LET q == req[r]
           n == Len(q.steps)
       IN  /\ \A i, j \in 1..n : i < j => Rank(q.steps[i]) < Rank(q.steps[j])
           /\ n >= 1 => q.steps[1] = "fetch"
           /\ n >= 2 => q.steps[2] = "dispatch"
           /\ n >= 3 => q.steps[3] = "extract"
           /\ Len(q.extractors) <= 1
           /\ Has(q.steps, "extract") <=> q.extractors # <<>>
           /\ (Has(q.steps, "schedule") \/ Has(q.steps, "respond") \/ q.pc \in {"schedule", "respond"})
                 => q.text # <<>> /\ q.file_type # "" /\ Has(q.steps, "extract")
           /\ q.pc = "errored" => q.response.kind = "error" /\ ~Has(q.steps, "respond")
                                  /\ ~Has(q.steps, "schedule") /\ q.tasks = <<>>
           /\ q.pc = "responded" <=> q.response.kind = "ok"
           /\ q.pc = "responded" => q.steps[n] = "respond"
           /\ q.pc \notin Terminal => q.response.kind = "none"
           /\ q.cause = "empty" => q.pc = "errored" /\ q.extractors = <<>> /\ q.steps = <<"fetch">>
           /\ q.cause \in {"network", "http_status", "unexpected"} => q.steps = <<"fetch">>
           /\ q.cause = "unsupported" => q.steps = <<"fetch", "dispatch">>

\* Once a request has ended, no step of its handler runs and its outcome stays.
C1_Absorbing ==
    \A r \in ReqIds :
       req[r].pc \in Terminal =>
          /\ req'[r].pc = req[r].pc
          /\ req'[r].steps = req[r].steps
          /\ req'[r].extractors = req[r].extractors
          /\ req'[r].response = req[r].response

\* C1: every handler runs fetch, dispatch, extract, (schedule), respond in
\* that order, each at most once; a failure at a step ends the request as
\* Errored with no later step run (an empty body before any extractor); a
\* request ends Responded or Errored, never both, and stays there.
C1_HandlerOrder ==
    /\ []C1_Order
    /\ [][C1_Absorbing]_vars
    /\ \A r \in ReqIds : (req[r].pc # "new") ~> (req[r].pc \in Terminal)

C1_Witness ==
    \E r \in ReqIds : req[r].cause = "empty" /\ req[r].pc = "errored"
                      /\ Dispatch(req[r].file_url) = "pdf"

\* The trailing extension of a URL: what follows its last dot, dot included.
LastDot(url) == CHOOSE i \in 1..Len(url) : url[i] = "." /\ \A j \in (i+1)..Len(url) : url[j] # "."
TrailingExtension(url) ==
    IF Has(url, ".") THEN SubSeq(url, LastDot(url), Len(url)) ELSE <<>>
\* The extractor a URL stands for: that of its lower-cased trailing extension.
ExtractorOf(url) ==
    LET e == Lower(TrailingExtension(url))
    IN  CASE e = <<".", "p", "d", "f">>      -> "pdf"
          [] e = <<".", "d", "o", "c", "x">> -> "docx"
          [] e = <<".", "d", "o", "c">>      -> "doc"
          [] e = <<".", "t", "x", "t">>      -> "txt"
          [] OTHER                           -> "none"

\* C2: a request that gets to dispatch invokes exactly the extractor of the
\* lower-cased trailing extension of its URL, and reports that file type; with
\* any other ending it fails as unsupported (400) and no extractor is invoked.
C2_Dispatch ==
    \A r \in ReqIds :
       LET q == req[r]
           x == ExtractorOf(q.file_url)
       IN  /\ q.extractors \in {<<>>, <<x>>}
           /\ x = "none" => q.extractors = <<>>
           /\ (Has(q.steps, "dispatch") /\ x = "none") =>
                 /\ q.pc = "errored" /\ q.cause = "unsupported"
                 /\ q.response.status = 400
           /\ (Has(q.steps, "dispatch") /\ x # "none") =>
                 /\ q.cause # "unsupported"
                 /\ q.pc \in Terminal => q.extractors = <<x>>
           /\ q.response.kind = "ok" => q.response.file_type = x /\ x # "none"

C2_Witness ==
    \E r \in ReqIds :
       /\ req[r].file_url = <<"u", ".", "t", "x", "t", ".", "D", "o", "C", "X">>
       /\ req[r].response.kind = "ok"
       /\ req[r].extractors = <<"docx">>

\* C3: every request that failed answers with a structured error: 400 for an
\* unsupported format, an empty download, a download failure and a failure of
\* an extractor, 500 for anything unanticipated; nothing else.
C3_ErrorStatus ==
    \A r \in ReqIds :
       LET q == req[r]
       IN  q.pc = "errored" =>
              /\ q.response.kind = "error"
              /\ q.response.status \in {400, 500}
              /\ q.cause \in {"unsupported", "empty", "network", "http_status",
                              "extractor", "unexpected"}
              /\ q.cause = "unexpected" <=> q.response.status = 500
              /\ q.extractors # <<>> => q.response.status = 400

C3_Witness ==
    \E r \in ReqIds : req[r].pc = "errored" /\ req[r].cause = "extractor"
                      /\ req[r].extractors = <<"txt">> /\ req[r].response.status = 400

\* C4: a background update runs only for a request already answered with
\* success, whatever it comes to (updated, miss, store exception) the answer
\* stays the one the handler built, and no exception leaves the update.
C4_BackgroundInvisible ==
    \A r \in ReqIds :
       LET q == req[r]
       IN  /\ q.bg.state # "none" =>
                /\ q.pc = "responded"
                /\ q.response = ExtractionResponse(q.text, q.file_type, TRUE)
                /\ q.response.status = 200
           /\ q.bg.state = "done" =>
                /\ ~q.bg.escaped
                /\ q.bg.log \in {"updated", "miss", "error"}
                /\ q.bg.log = "miss" <=> (q.bg.song_id \notin DOMAIN db /\ q.bg.log # "error")

C4_Witness ==
    \E r \in ReqIds : /\ req[r].bg.state = "done" /\ req[r].bg.log = "miss"
                      /\ req[r].response.kind = "ok" /\ req[r].response.updated_supabase

\* The tasks of request r waiting in the queues.
Queued(r) ==
    {<<p, i>> \in Procs \X (1..MaxRequests) : i <= Len(bgq[p]) /\ bgq[p][i].rid = r}

\* C5: a store write is scheduled or performed only for a request whose
\* extraction succeeded, at most once, with the text of its response.
C5_WriteAfterExtraction ==
    /\ \A r \in ReqIds :
          LET q == req[r]
          IN  /\ Len(q.tasks) <= 1
              /\ Cardinality(Queued(r)) <= 1
              /\ (q.tasks # <<>> \/ q.bg.state # "none" \/ Queued(r) # {}) =>
                    /\ Extracted(r) /\ q.pc # "errored"
                    /\ q.text # <<>> /\ q.file_type # ""
              /\ q.tasks # <<>> =>
                    q.tasks[1] = [rid |-> r, song_id |-> q.song_id.id, text |-> q.text]
              /\ \A x \in Queued(r) :
                    /\ q.pc = "responded" /\ q.bg.state = "queued"
                    /\ bgq[x[1]][x[2]].text = q.response.text
                    /\ bgq[x[1]][x[2]].song_id = q.song_id.id
              /\ q.bg.state = "done" =>
                    /\ Queued(r) = {}
                    /\ q.bg.text = q.response.text /\ q.bg.song_id = q.song_id.id
    /\ \A id \in DOMAIN db :
          db[id] # <<>> =>
             \E r \in ReqIds : /\ req[r].bg.state = "done" /\ req[r].bg.log = "updated"
                               /\ req[r].bg.song_id = id /\ req[r].response.text = db[id]

C5_Witness ==
    \E r \in ReqIds : /\ req[r].bg.state = "done" /\ req[r].bg.log = "updated"
                      /\ db[req[r].song_id.id] = req[r].response.text
                      /\ req[r].file_type = "doc"

\* Whether the environment gives no usable credentials.
Disabled == env.url \in {"unset", "empty"} \/ env.key \in {"unset", "empty"} \/ ~env.valid

\* C6: the handle is the one the environment gave at start; without usable
\* credentials it is None for good: /health says "disabled", no write is
\* scheduled or attempted, updated_supabase is false and no request that got
\* its text fails.
C6_DisabledStore ==
    /\ supabase = (IF Disabled THEN "None" ELSE "Client")
    /\ Disabled =>
          /\ health \in {"none", "disabled"}
          /\ db = [id \in Records |-> <<>>]
          /\ \A p \in Procs : bgq[p] = <<>>
          /\ \A r \in ReqIds :
                /\ req[r].tasks = <<>> /\ req[r].bg = NoBg
                /\ ~req[r].updated_supabase /\ ~req[r].response.updated_supabase
                /\ req[r].pc = "errored" => req[r].file_type = ""
    /\ ~Disabled => health \in {"none", "connected"}

C6_Witness ==
    /\ env.url = "set" /\ env.key = "empty" /\ health = "disabled"
    /\ \E r \in ReqIds : /\ req[r].pc = "responded" /\ req[r].song_id = Song("s1")
                         /\ ~req[r].response.updated_supabase

\* Whether the plain-text extractor has returned or raised in request r.
TxtDone(r) == req[r].extractors = <<"txt">> /\ Extracted(r)
\* The plain-text extractor returned text t in request r.
TxtReturned(r, t) == req[r].pc # "errored" /\ req[r].text = t
\* The plain-text extractor raised the decode-failure error in request r.
TxtFailed(r) ==
    /\ req[r].pc = "errored" /\ req[r].response.status = 400
    /\ req[r].response.detail = "Failed to decode text file with supported encodings"

\* C7: for bytes that are valid UTF-8 the plain-text extractor returns their
\* trimmed UTF-8 decode, and fails when that is empty.
C7_Utf8Lossless ==
    \A r \in ReqIds :
       LET u == DecodeUtf8(req[r].file_content)
       IN  (TxtDone(r) /\ u.ok) =>
              IF Strip(u.cps) # <<>> THEN TxtReturned(r, Strip(u.cps)) ELSE TxtFailed(r)

TxtOrder == <<"utf-8", "latin-1", "cp1252", "iso-8859-1">>
\* Whether encoding number i decodes b to text that is not blank.
Yields(i, b) == Decode(TxtOrder[i], b).ok /\ Strip(Decode(TxtOrder[i], b).cps) # <<>>

\* The first sentence of C8: the result is the trimmed decode of the first
\* encoding in the order that decodes to text that is not blank, and the
\* decode-failure error exactly when there is none.
C8_FirstYielding(r) ==
    LET b == req[r].file_content
    IN  IF \E i \in 1..4 : Yields(i, b)
        THEN LET first == CHOOSE i \in 1..4 : Yields(i, b) /\ \A j \in 1..(i-1) : ~Yields(j, b)
             IN  TxtReturned(r, Strip(Decode(TxtOrder[first], b).cps))
        ELSE TxtFailed(r)

\* Bytes that are not UTF-8 and whose Latin-1 decode is blank.
C8_BlankLatin1(b) == ~DecodeUtf8(b).ok /\ Strip(DecodeLatin1(b).cps) = <<>>

\* C8 as stated: ... and for bytes that are not UTF-8 and blank under Latin-1
\* the result is the (trimmed) Windows-1252 decode.
C8_AsStated ==
    \A r \in ReqIds :
       TxtDone(r) =>
          /\ C8_FirstYielding(r)
          /\ C8_BlankLatin1(req[r].file_content) =>
                TxtReturned(r, Strip(DecodeCp1252(req[r].file_content).cps))

\* C8 amended: ... the result is the trimmed Windows-1252 decode when that is
\* not blank, and the decode-failure error when it is.
C8_EncodingOrder ==
    \A r \in ReqIds :
       TxtDone(r) =>
          /\ C8_FirstYielding(r)
          /\ C8_BlankLatin1(req[r].file_content) =>
                LET w == DecodeCp1252(req[r].file_content)
                IN  /\ w.ok
                    /\ IF Strip(w.cps) # <<>> THEN TxtReturned(r, Strip(w.cps))
                       ELSE TxtFailed(r)

C8_Witness ==
    \E r \in ReqIds : /\ TxtDone(r) /\ req[r].file_content = <<32, 133>>
                      /\ req[r].response.text = <<8230>>

\* Whether the legacy-DOC extractor is running in request r, its path named.
InDoc(r) == req[r].pc \in {"doc_run", "doc_finally"}

\* C9 as stated: no two invocations of the legacy-DOC extractor use the same
\* path.
C9_UniquePerInvocation ==
    \A r1, r2 \in ReqIds :
       (r1 # r2 /\ req[r1].temp_file # <<>> /\ req[r2].temp_file # <<>>)
          => req[r1].temp_file # req[r2].temp_file

\* C9 amended: two invocations that overlap in time run in different
\* processes and use different paths; the file an invocation hands to
\* textract exists and holds the bytes that invocation wrote.
C9_NoCollision ==
    /\ \A r1, r2 \in ReqIds :
          (r1 # r2 /\ InDoc(r1) /\ InDoc(r2)) =>
             /\ req[r1].pid # req[r2].pid
             /\ req[r1].temp_file # req[r2].temp_file
    /\ \A r \in ReqIds :
          /\ req[r].pc = "doc_run" => fs[req[r].temp_file] = File(req[r].file_content)
          /\ req[r].read.done => req[r].read.file = File(req[r].file_content)

C9_Witness ==
    \E r1, r2 \in ReqIds : /\ r1 # r2 /\ req[r1].pc = "doc_run" /\ req[r2].pc = "doc_finally"
                           /\ req[r2].read.done

\* The invocation of the legacy-DOC extractor in request r ends in this step.
DocEnds(r) == req[r].pc = "doc_finally" /\ req'[r].pc # "doc_finally"
\* ... and hands the handler the result or the 400 error that was pending.
DocOutcomeKept(r) ==
    IF req[r].pending.ok
    THEN req'[r].pc = "schedule" /\ req'[r].text = req[r].pending.text
    ELSE /\ req'[r].pc = "errored" /\ req'[r].response.status = 400
         /\ req'[r].response.detail = "DOC extraction failed"

\* C10 as stated: when an invocation ends its file is gone and its outcome kept.
C10_AlwaysRemoved ==
    [][\A r \in ReqIds :
          DocEnds(r) => ~fs'[req[r].temp_file].exists /\ DocOutcomeKept(r)]_vars

\* C10 amended: when an invocation ends its file is gone unless os.remove
\* failed (the file is then left as it was), and its outcome is kept.
C10_RemovedUnlessRemoveFails ==
    [][\A r \in ReqIds :
          DocEnds(r) =>
             /\ fs'[req[r].temp_file].exists =>
                   /\ req'[r].removeFailed
                   /\ fs' = fs
             /\ (~req'[r].removeFailed) => ~fs'[req[r].temp_file].exists
             /\ DocOutcomeKept(r)]_vars

C10_Witness ==
    \E r \in ReqIds : /\ req[r].extractors = <<"doc">> /\ req[r].pc = "errored"
                      /\ req[r].read.done /\ req[r].created
                      /\ ~req[r].removeFailed /\ ~fs[req[r].temp_file].exists

====
